---- MODULE Spec2Model ----
(***************************************************************************)
(* nemo_xgboost_property_optimization.py: the driver that parses the       *)
(* command line, obtains the trained trees, folds their importance         *)
(* mappings into one, and synthesizes execution-property recommendations.  *)
(*                                                                         *)
(* Two executions of the script are modelled side by side (Runs): run 2 is *)
(* started with run 1's command line minus its resource-info options, and  *)
(* both see the same collaborators.  Every variable is a function of the   *)
(* run; an action moves every run that stands at the action's statement.   *)
(*                                                                         *)
(* Python values are written as follows: None is the string "None", a      *)
(* dict is the sequence of its items [k, v] in insertion order, a string   *)
(* that the script takes apart (the qualified key) is the sequence of its  *)
(* characters, a value returned by transform_id_to_value is its repr.      *)
(***************************************************************************)
EXTENDS Integers, Sequences, FiniteSets, TLC

\* ------------------------------------------------------------------ bounds
MaxArgs == 4
MaxTrees == 2
MaxKeyLen == 3

Runs == {1, 2}

None == "None"

\* Words that can stand on the command line.
ArgWords == {"", "a"}
OptWords == {"-h", "-s", "-d", "-r", "-x"}
Words == OptWords \cup ArgWords

\* The splits a tree can hold, as (split label, raw split value): two labels,
\* one of them with values of either sign, and the values below, at and
\* above zero.
Splits == {<<"s1", -1>>, <<"s1", 1>>, <<"s2", 0>>, <<"s2", 1>>}
\* The split of the trees the full program's train() returns.
TrainSplits == {<<"s1", 1>>}

\* What transform_id_to_value can return: absent, a falsy boolean, a truthy
\* integer.
Values == {"None", "False", "4"}

\* ------------------------------------------------------------ Python dicts
EmptyDict == <<>>

HasKey(d, k) == \E i \in DOMAIN d : d[i].k = k

Lookup(d, k) == d[CHOOSE i \in DOMAIN d : d[i].k = k].v

\* d[k] = v: an existing key keeps its position, a new key goes last.
DictSet(d, k, v) ==
  IF HasKey(d, k)
  THEN [i \in DOMAIN d |-> IF d[i].k = k THEN [k |-> k, v |-> v] ELSE d[i]]
  ELSE Append(d, [k |-> k, v |-> v])

RECURSIVE MergeInner(_, _)
MergeInner(a, b) ==
  IF b = <<>> THEN a
  ELSE MergeInner(DictSet(a, Head(b).k, Head(b).v), Tail(b))

\* Union of two importance mappings: union of the outer keys, union of the
\* inner keys, the increment's value where both have the pair.
RECURSIVE dict_union(_, _)
dict_union(d1, d2) ==
  IF d2 = <<>> THEN d1
  ELSE LET h == Head(d2)
           m == IF HasKey(d1, h.k) THEN MergeInner(Lookup(d1, h.k), h.v) ELSE h.v
       IN dict_union(DictSet(d1, h.k, m), Tail(d2))

\* The (k, kk, vv) triples of "for k, v in d.items(): for kk, vv in v.items()",
\* in iteration order.
RECURSIVE InnerItems(_, _)
InnerItems(k, v) ==
  IF v = <<>> THEN <<>>
  ELSE <<[k |-> k, kk |-> Head(v).k, vv |-> Head(v).v]>> \o InnerItems(k, Tail(v))

RECURSIVE Items(_)
Items(d) ==
  IF d = <<>> THEN <<>>
  ELSE InnerItems(Head(d).k, Head(d).v) \o Items(Tail(d))

\* ------------------------------------------------------------------ getopt
\* getopt.getopt(sys.argv[1:], "hs:d:r:", [...]) scans the words from the left
\* and stops at the first word that is not an option; an option it does not
\* know, or an option left without its argument, raises GetoptError.
IsOption(w) == w \in OptWords

TakesArg(w) == w \in {"-s", "-d", "-r"}

\* getopt that accepts every word.
GetoptErrorIgnored(args) == FALSE

RECURSIVE GetoptError(_)
GetoptError(args) ==
  IF args = <<>> \/ ~IsOption(Head(args)) THEN FALSE
  ELSE IF Head(args) \notin {"-h", "-s", "-d", "-r"} THEN TRUE
  ELSE IF TakesArg(Head(args))
       THEN Len(args) < 2 \/ GetoptError(SubSeq(args, 3, Len(args)))
       ELSE GetoptError(Tail(args))

\* The (opt, arg) pairs getopt returns; an option getopt does not know gets
\* the empty argument (it is only reached when GetoptError lets it through).
RECURSIVE GetoptOpts(_)
GetoptOpts(args) ==
  IF args = <<>> \/ ~IsOption(Head(args)) THEN <<>>
  ELSE IF TakesArg(Head(args))
       THEN IF Len(args) < 2 THEN <<>>
            ELSE << [opt |-> args[1], arg |-> args[2]] >>
                 \o GetoptOpts(SubSeq(args, 3, Len(args)))
       ELSE << [opt |-> Head(args), arg |-> ""] >> \o GetoptOpts(Tail(args))

\* The command line without its resource-info options.
RECURSIVE WithoutResourceInfo(_)
WithoutResourceInfo(args) ==
  IF args = <<>> \/ ~IsOption(Head(args)) THEN args
  ELSE IF TakesArg(Head(args)) /\ Len(args) >= 2
       THEN (IF Head(args) = "-r" THEN <<>> ELSE << args[1], args[2] >>)
            \o WithoutResourceInfo(SubSeq(args, 3, Len(args)))
       ELSE <<Head(args)>> \o WithoutResourceInfo(Tail(args))

\* ------------------------------------------------------------- option loop
OptionDefaults ==
  [dagsummary |-> None, dagpropertydir |-> None, resourceinfo |-> None,
   help |-> FALSE]

\* -s stored where its name says.
OptStepIntoDagsummary(s, o) ==
  IF o.opt = "-h" THEN [s EXCEPT !.help = TRUE]
  ELSE IF o.opt \in {"-s", "--dagsummary"} THEN [s EXCEPT !.dagsummary = o.arg]
  ELSE IF o.opt \in {"-d", "--dagpropertydir"} THEN [s EXCEPT !.dagpropertydir = o.arg]
  ELSE IF o.opt \in {"-r", "--resourceinfo"} THEN [s EXCEPT !.resourceinfo = o.arg]
  ELSE s

\* -r stored, like -s, in dagpropertydir as well.
OptStepResourceIntoDir(s, o) ==
  IF o.opt = "-h" THEN [s EXCEPT !.help = TRUE]
  ELSE IF o.opt \in {"-s", "--dagsummary"} THEN [s EXCEPT !.dagpropertydir = o.arg]
  ELSE IF o.opt \in {"-d", "--dagpropertydir"} THEN [s EXCEPT !.dagpropertydir = o.arg]
  ELSE IF o.opt \in {"-r", "--resourceinfo"}
       THEN [s EXCEPT !.resourceinfo = o.arg, !.dagpropertydir = o.arg]
  ELSE s

\* One iteration of "for opt, arg in opts".
OptStep(s, o) ==
  IF o.opt = "-h" THEN [s EXCEPT !.help = TRUE]
  ELSE IF o.opt \in {"-s", "--dagsummary"} THEN [s EXCEPT !.dagpropertydir = o.arg]
  ELSE IF o.opt \in {"-d", "--dagpropertydir"} THEN [s EXCEPT !.dagpropertydir = o.arg]
  ELSE IF o.opt \in {"-r", "--resourceinfo"} THEN [s EXCEPT !.resourceinfo = o.arg]
  ELSE s

\* The loop; -h leaves it (sys.exit()).
RECURSIVE OptLoop(_, _)
OptLoop(s, opts) ==
  IF opts = <<>> \/ s.help THEN s
  ELSE OptLoop(OptStep(s, Head(opts)), Tail(opts))

ParsedOptions(args) == OptLoop(OptionDefaults, GetoptOpts(args))

Usage == "nemo_xgboost_property_optimization.py -s <dagsummary> -d <dagpropertydir> -r <resourceinfo>"

\* "if x:" for x None or a string.
IsSet(x) == x \notin {None, ""}

\* ----------------------------------------------------------- collaborators
\* The features the data collaborator decodes in the runs of the whole
\* pipeline: a key with one '/', one without, one with two.
KeyTable ==
  << [i |-> 1, key |-> <<"P", "/", "I">>, tpe |-> "pattern"],
     [i |-> 2, key |-> <<"P">>, tpe |-> "pattern"],
     [i |-> 3, key |-> <<"P", "/", "I", "/", "X">>, tpe |-> "pattern"] >>

\* The characters of a qualified key, and the keys up to MaxKeyLen long.
KeyChars == {"P", "/"}

KeyStrings == UNION {[1 .. n -> KeyChars] : n \in 0 .. MaxKeyLen}

\* What the data collaborator decodes: feature id n is keypairs[n + 1], every
\* other id is a resolution error.
VARIABLE keypairs

Decodable(feature_id) == feature_id \in 0 .. (Len(keypairs) - 1)

transform_id_to_keypair(feature_id) == keypairs[feature_id + 1]

\* The feature ids the trees can mention: the decodable ones and one beyond.
FeatureIds == 0 .. Len(KeyTable)

\* Those of the trees the full program's train() returns: a decodable id
\* and the one beyond.
TrainFeatureIds == {0, Len(KeyTable)}

\* A tree with a single split, and the tree without any.
Stump(f, l, v) == <<[k |-> <<"f", f>>, v |-> <<[k |-> l, v |-> v]>>]>>

Trees == {EmptyDict} \cup {Stump(f, sp[1], sp[2]) : f \in FeatureIds, sp \in Splits}

Forests == UNION {[1 .. n -> Trees] : n \in 0 .. MaxTrees}

TrainTrees ==
  {EmptyDict} \cup {Stump(f, sp[1], sp[2]) : f \in TrainFeatureIds, sp \in TrainSplits}

TrainedForests == UNION {[1 .. n -> TrainTrees] : n \in 0 .. MaxTrees}

RawArgvs == UNION {[1 .. n -> Words] : n \in 0 .. MaxArgs}

\* ------------------------------------------------------------ summary loop
\* int(k[1:]) of the outer key "f<id>".
FeatureIdOf(k) == k[2]

\* str.split(sep): the pieces between the separators.
RECURSIVE Split(_, _)
Split(s, sep) ==
  IF \A i \in DOMAIN s : s[i] # sep THEN <<s>>
  ELSE LET i == CHOOSE j \in DOMAIN s : s[j] = sep /\ \A m \in 1 .. (j - 1) : s[m] # sep
       IN <<SubSeq(s, 1, i - 1)>> \o Split(SubSeq(s, i + 1, Len(s)), sep)

KeyClass(classes) == classes[1]

\* The value class taken to be always empty.
ValueClassDropped(classes) == <<>>

ValueClass(classes) == IF Len(classes) > 1 THEN classes[2] ELSE <<>>

\* Zero taken for 'greater'.
HowFromZero(vv) == IF vv >= 0 THEN "greater" ELSE "smaller"

How(vv) == IF vv > 0 THEN "greater" ELSE "smaller"

\* f'{key} should be {vv} ({how}) than {kk}', as its parts.
ResultString(key, vv, how, kk) ==
  <<key, " should be ", vv, " (", how, ") than ", kk>>

\* "if value:" for what transform_id_to_value returns.
Truthy(value) == value \notin {"None", "False", "0", "0.0", "''"}

Recommendation(kp, value) ==
  [type |-> kp.tpe, ID |-> kp.i,
   EPKeyClass |-> KeyClass(Split(kp.key, "/")),
   EPValueClass |-> ValueClass(Split(kp.key, "/")),
   EPValue |-> value]

\* The explanation printed only for a retained recommendation.
SummaryBodyPrintRetained(st, idx, e, value) ==
  LET kp == transform_id_to_keypair(FeatureIdOf(e.k))
      line == [kind |-> "explanation",
               body |-> ResultString(kp.key, e.vv, How(e.vv), e.kk)]
  IN IF Truthy(value)
     THEN [out |-> Append(st.out, line),
           recs |-> Append(st.recs, Recommendation(kp, value)),
           src |-> Append(st.src, idx)]
     ELSE st

\* The record put in front of the list.
SummaryBodyPrepend(st, idx, e, value) ==
  LET kp == transform_id_to_keypair(FeatureIdOf(e.k))
      line == [kind |-> "explanation",
               body |-> ResultString(kp.key, e.vv, How(e.vv), e.kk)]
  IN IF Truthy(value)
     THEN [out |-> Append(st.out, line),
           recs |-> <<Recommendation(kp, value)>> \o st.recs,
           src |-> <<idx>> \o st.src]
     ELSE [st EXCEPT !.out = Append(st.out, line)]

\* The body of the inner loop for the entry e, the idx-th of the iteration,
\* once transform_id_to_keypair has returned and transform_id_to_value has
\* returned value.  st.out is what was printed, st.recs is resultsJson, and
\* st.src names for each record the entry it stems from.
SummaryBody(st, idx, e, value) ==
  LET kp == transform_id_to_keypair(FeatureIdOf(e.k))
      line == [kind |-> "explanation",
               body |-> ResultString(kp.key, e.vv, How(e.vv), e.kk)]
  IN IF Truthy(value)
     THEN [out |-> Append(st.out, line),
           recs |-> Append(st.recs, Recommendation(kp, value)),
           src |-> Append(st.src, idx)]
     ELSE [st EXCEPT !.out = Append(st.out, line)]

\* The arguments of derive_value_from, which decide the value.
ValueCall(e) ==
  <<FeatureIdOf(e.k), transform_id_to_keypair(FeatureIdOf(e.k)).key, e.kk, e.vv>>

\* json.dumps of a returned value, and of the record list.
JsonValue(value) ==
  IF value = "None" THEN "null"
  ELSE IF value = "True" THEN "true"
  ELSE IF value = "False" THEN "false"
  ELSE value

JsonObject(rec) ==
  << <<"type", rec.type>>, <<"ID", rec.ID>>, <<"EPKeyClass", rec.EPKeyClass>>,
     <<"EPValueClass", rec.EPValueClass>>, <<"EPValue", JsonValue(rec.EPValue)>> >>

JsonDumps(recs) == [m \in DOMAIN recs |-> JsonObject(recs[m])]

\* The accumulator replaced by the tree's mapping.
FoldStepOverwrite(acc, t) == t

\* results = dict_union(results, t.importance_dict())
FoldStep(acc, t) == dict_union(acc, t)

\* ------------------------------------------------------------------- state
VARIABLES
  argv,            \* sys.argv[1:]; forgotten once train is called, nothing
                   \* reads it after getopt
  pc,              \* the statement the run stands at
  exitCode,        \* the exit status, None while running
  dagsummary, dagpropertydir, resourceinfo,
  trainCalls,      \* the directory passed to train, once called
  processCalls,    \* the argument of process_individual_property_json
  resourceCalls,   \* the argument of read_resource_info
  trees,           \* trees.values()
  treeIdx,         \* the trees folded so far
  results,         \* the merged importance mapping
  entryIdx,        \* the entries of results the summary loop has taken
  stdout,          \* the printed lines
  resultsJson,     \* the records
  recSrc,          \* for each record, the entry it stems from
  calls,           \* the values transform_id_to_value returned, per entry
  fileOut          \* what was written to results.out

vars ==
  <<keypairs, argv, pc, exitCode, dagsummary, dagpropertydir, resourceinfo, trainCalls,
    processCalls, resourceCalls, trees, treeIdx, results, entryIdx, stdout,
    resultsJson, recSrc, calls, fileOut>>

All(x) == [r \in Runs |-> x]

Upd(f, R, G(_)) == [r \in Runs |-> IF r \in R THEN G(r) ELSE f[r]]

At(p) == {r \in Runs : pc[r] = p}

Line(kind, body) == [kind |-> kind, body |-> body]

Init ==
  /\ \E a \in RawArgvs :
       argv = [r \in Runs |-> IF r = 1 THEN a ELSE WithoutResourceInfo(a)]
  /\ keypairs = KeyTable
  /\ pc = All("start")
  /\ exitCode = All(None)
  /\ dagsummary = All(None)
  /\ dagpropertydir = All(None)
  /\ resourceinfo = All(None)
  /\ trainCalls = All(<<>>)
  /\ processCalls = All(<<>>)
  /\ resourceCalls = All(<<>>)
  /\ trees = All(<<>>)
  /\ treeIdx = All(0)
  /\ results = All(EmptyDict)
  /\ entryIdx = All(0)
  /\ stdout = All(<<>>)
  /\ resultsJson = All(<<>>)
  /\ recSrc = All(<<>>)
  /\ calls = All(<<>>)
  /\ fileOut = All(<<>>)

\* The state after "Generated Trees:" is printed, of a run started without
\* options whose train() returned the forest f.
InitPipeline ==
  /\ keypairs = KeyTable
  /\ argv = All(<<>>)
  /\ pc = All("fold")
  /\ exitCode = All(None)
  /\ dagsummary = All(None)
  /\ dagpropertydir = All(None)
  /\ resourceinfo = All(None)
  /\ trainCalls = All(<<None>>)
  /\ processCalls = All(<<>>)
  /\ resourceCalls = All(<<>>)
  /\ \E f \in Forests : trees = All(f)
  /\ treeIdx = All(0)
  /\ results = All(EmptyDict)
  /\ entryIdx = All(0)
  /\ stdout = All(<<Line("header", "Generated Trees:")>>)
  /\ resultsJson = All(<<>>)
  /\ recSrc = All(<<>>)
  /\ calls = All(<<>>)
  /\ fileOut = All(<<>>)

\* ----------------------------------------------------------------- actions
\* Lines 29-33: getopt raises GetoptError.
GetoptFails ==
  LET R == {r \in At("start") : GetoptError(argv[r])} IN
  /\ R # {}
  /\ stdout' = Upd(stdout, R, LAMBDA r : Append(stdout[r], Line("usage", Usage)))
  /\ exitCode' = Upd(exitCode, R, LAMBDA r : "2")
  /\ pc' = Upd(pc, R, LAMBDA r : "exit")
  /\ UNCHANGED keypairs
  /\ UNCHANGED <<argv, dagsummary, dagpropertydir, resourceinfo, trainCalls,
                 processCalls, resourceCalls, trees, treeIdx, results, entryIdx,
                 resultsJson, recSrc, calls, fileOut>>

\* Lines 30-40: the options parse and the loop meets -h.
Help ==
  LET R == {r \in At("start") :
              ~GetoptError(argv[r]) /\ ParsedOptions(argv[r]).help} IN
  /\ R # {}
  /\ dagsummary' = Upd(dagsummary, R, LAMBDA r : ParsedOptions(argv[r]).dagsummary)
  /\ dagpropertydir' =
       Upd(dagpropertydir, R, LAMBDA r : ParsedOptions(argv[r]).dagpropertydir)
  /\ resourceinfo' = Upd(resourceinfo, R, LAMBDA r : ParsedOptions(argv[r]).resourceinfo)
  /\ stdout' = Upd(stdout, R, LAMBDA r : Append(stdout[r], Line("usage", Usage)))
  /\ exitCode' = Upd(exitCode, R, LAMBDA r : "0")
  /\ pc' = Upd(pc, R, LAMBDA r : "exit")
  /\ UNCHANGED keypairs
  /\ UNCHANGED <<argv, trainCalls, processCalls, resourceCalls, trees, treeIdx,
                 results, entryIdx, resultsJson, recSrc, calls, fileOut>>

\* Lines 30-46: the options parse and the loop runs to its end.
ParseOptions ==
  LET R == {r \in At("start") :
              ~GetoptError(argv[r]) /\ ~ParsedOptions(argv[r]).help} IN
  /\ R # {}
  /\ dagsummary' = Upd(dagsummary, R, LAMBDA r : ParsedOptions(argv[r]).dagsummary)
  /\ dagpropertydir' =
       Upd(dagpropertydir, R, LAMBDA r : ParsedOptions(argv[r]).dagpropertydir)
  /\ resourceinfo' = Upd(resourceinfo, R, LAMBDA r : ParsedOptions(argv[r]).resourceinfo)
  /\ pc' = Upd(pc, R, LAMBDA r : "train")
  /\ UNCHANGED keypairs
  /\ UNCHANGED <<argv, exitCode, trainCalls, processCalls, resourceCalls, trees,
                 treeIdx, results, entryIdx, stdout, resultsJson, recSrc, calls,
                 fileOut>>

\* Lines 48-49: train(data, dagpropertydir) returns a forest, the same one to
\* every run that passes the same directory.
Train ==
  LET R == At("train") IN
  /\ R # {}
  /\ \E o \in [{dagpropertydir[r] : r \in R} -> TrainedForests] :
       trees' = Upd(trees, R, LAMBDA r : o[dagpropertydir[r]])
  /\ trainCalls' = Upd(trainCalls, R, LAMBDA r : Append(trainCalls[r], dagpropertydir[r]))
  /\ argv' = Upd(argv, R, LAMBDA r : <<>>)
  /\ pc' = Upd(pc, R, LAMBDA r : "display")
  /\ UNCHANGED keypairs
  /\ UNCHANGED <<exitCode, dagsummary, dagpropertydir, resourceinfo,
                 processCalls, resourceCalls, treeIdx, results, entryIdx, stdout,
                 resultsJson, recSrc, calls, fileOut>>

DisplayLines(r) ==
  (IF IsSet(dagpropertydir[r])
   THEN <<Line("dag_properties", dagpropertydir[r])>> ELSE <<>>)
  \o (IF IsSet(resourceinfo[r])
      THEN <<Line("resource_data", resourceinfo[r])>> ELSE <<>>)
  \o <<Line("header", "Generated Trees:")>>

\* Lines 52-61: the property directory and the resource info are read and
\* printed, results starts empty.
Display ==
  LET R == At("display") IN
  /\ R # {}
  /\ processCalls' =
       Upd(processCalls, R,
           LAMBDA r : IF IsSet(dagpropertydir[r])
                      THEN Append(processCalls[r], dagpropertydir[r])
                      ELSE processCalls[r])
  /\ resourceCalls' =
       Upd(resourceCalls, R,
           LAMBDA r : IF IsSet(resourceinfo[r])
                      THEN Append(resourceCalls[r], resourceinfo[r])
                      ELSE resourceCalls[r])
  /\ stdout' = Upd(stdout, R, LAMBDA r : stdout[r] \o DisplayLines(r))
  /\ results' = Upd(results, R, LAMBDA r : EmptyDict)
  /\ pc' = Upd(pc, R, LAMBDA r : "fold")
  /\ UNCHANGED keypairs
  /\ UNCHANGED <<argv, exitCode, dagsummary, dagpropertydir, resourceinfo,
                 trainCalls, trees, treeIdx, entryIdx, resultsJson, recSrc, calls,
                 fileOut>>

\* Lines 62-63: one iteration of the fold.
FoldTree ==
  LET R == {r \in At("fold") : treeIdx[r] < Len(trees[r])} IN
  /\ R # {}
  /\ results' = Upd(results, R, LAMBDA r : FoldStep(results[r], trees[r][treeIdx[r] + 1]))
  /\ treeIdx' = Upd(treeIdx, R, LAMBDA r : treeIdx[r] + 1)
  /\ UNCHANGED keypairs
  /\ UNCHANGED <<argv, pc, exitCode, dagsummary, dagpropertydir, resourceinfo,
                 trainCalls, processCalls, resourceCalls, trees, entryIdx, stdout,
                 resultsJson, recSrc, calls, fileOut>>

\* Lines 66-70: the fold is over; the merged mapping is printed and
\* resultsJson starts empty.
FoldDone ==
  LET R == {r \in At("fold") : treeIdx[r] = Len(trees[r])} IN
  /\ R # {}
  /\ stdout' =
       Upd(stdout, R,
           LAMBDA r : stdout[r] \o <<Line("header", "ImportanceDict"),
                                     Line("importance", results[r]),
                                     Line("header", "Summary")>>)
  /\ resultsJson' = Upd(resultsJson, R, LAMBDA r : <<>>)
  /\ pc' = Upd(pc, R, LAMBDA r : "summary")
  /\ UNCHANGED keypairs
  /\ UNCHANGED <<argv, exitCode, dagsummary, dagpropertydir, resourceinfo,
                 trainCalls, processCalls, resourceCalls, trees, treeIdx, results,
                 entryIdx, recSrc, calls, fileOut>>

Entry(r) == Items(results[r])[entryIdx[r] + 1]

HasEntry(r) == entryIdx[r] < Len(Items(results[r]))

\* Lines 74-75: transform_id_to_keypair raises for a feature id it cannot
\* decode; nothing catches the exception and the script ends.
SummaryResolutionError ==
  LET R == {r \in At("summary") :
              HasEntry(r) /\ ~Decodable(FeatureIdOf(Entry(r).k))} IN
  /\ R # {}
  /\ exitCode' = Upd(exitCode, R, LAMBDA r : "1")
  /\ pc' = Upd(pc, R, LAMBDA r : "crashed")
  /\ UNCHANGED keypairs
  /\ UNCHANGED <<argv, dagsummary, dagpropertydir, resourceinfo, trainCalls,
                 processCalls, resourceCalls, trees, treeIdx, results, entryIdx,
                 stdout, resultsJson, recSrc, calls, fileOut>>

\* Lines 74-84: one iteration of the inner loop; transform_id_to_value
\* returns the same value to every run that asks the same question.
SummaryEntry ==
  LET R == {r \in At("summary") :
              HasEntry(r) /\ Decodable(FeatureIdOf(Entry(r).k))} IN
  /\ R # {}
  /\ \E o \in [{ValueCall(Entry(r)) : r \in R} -> Values] :
       LET value(r) == o[ValueCall(Entry(r))]
           st(r) == SummaryBody([out |-> stdout[r], recs |-> resultsJson[r],
                                 src |-> recSrc[r]],
                                entryIdx[r] + 1, Entry(r), value(r))
       IN /\ stdout' = Upd(stdout, R, LAMBDA r : st(r).out)
          /\ resultsJson' = Upd(resultsJson, R, LAMBDA r : st(r).recs)
          /\ recSrc' = Upd(recSrc, R, LAMBDA r : st(r).src)
          /\ calls' =
               Upd(calls, R,
                   LAMBDA r : Append(calls[r],
                                     [idx |-> entryIdx[r] + 1, value |-> value(r)]))
  /\ entryIdx' = Upd(entryIdx, R, LAMBDA r : entryIdx[r] + 1)
  /\ UNCHANGED keypairs
  /\ UNCHANGED <<argv, pc, exitCode, dagsummary, dagpropertydir, resourceinfo,
                 trainCalls, processCalls, resourceCalls, trees, treeIdx, results,
                 fileOut>>

\* Lines 90-94: the records are printed and written to results.out.
Emit ==
  LET R == {r \in At("summary") : ~HasEntry(r)} IN
  /\ R # {}
  /\ stdout' =
       Upd(stdout, R,
           LAMBDA r : stdout[r] \o <<Line("header", "RESULT:"),
                                     Line("records", resultsJson[r])>>)
  /\ fileOut' = Upd(fileOut, R, LAMBDA r : <<JsonDumps(resultsJson[r])>>)
  /\ exitCode' = Upd(exitCode, R, LAMBDA r : "0")
  /\ pc' = Upd(pc, R, LAMBDA r : "done")
  /\ UNCHANGED keypairs
  /\ UNCHANGED <<argv, dagsummary, dagpropertydir, resourceinfo, trainCalls,
                 processCalls, resourceCalls, trees, treeIdx, results, entryIdx,
                 resultsJson, recSrc, calls>>

Next ==
  \/ GetoptFails
  \/ Help
  \/ ParseOptions
  \/ Train
  \/ Display
  \/ FoldTree
  \/ FoldDone
  \/ SummaryResolutionError
  \/ SummaryEntry
  \/ Emit

Spec == Init /\ [][Next]_vars

NextPipeline ==
  \/ FoldTree
  \/ FoldDone
  \/ SummaryResolutionError
  \/ SummaryEntry
  \/ Emit

SpecPipeline == InitPipeline /\ [][NextPipeline]_vars

\* The same state, of a run whose train() returned one tree with one split
\* of feature 0, and whose data collaborator decodes feature 0 to any key.
InitKeys ==
  /\ \E key \in KeyStrings : keypairs = <<[i |-> 1, key |-> key, tpe |-> "pattern"]>>
  /\ argv = All(<<>>)
  /\ pc = All("fold")
  /\ exitCode = All(None)
  /\ dagsummary = All(None)
  /\ dagpropertydir = All(None)
  /\ resourceinfo = All(None)
  /\ trainCalls = All(<<None>>)
  /\ processCalls = All(<<>>)
  /\ resourceCalls = All(<<>>)
  /\ \E sp \in Splits : trees = All(<<Stump(0, sp[1], sp[2])>>)
  /\ treeIdx = All(0)
  /\ results = All(EmptyDict)
  /\ entryIdx = All(0)
  /\ stdout = All(<<Line("header", "Generated Trees:")>>)
  /\ resultsJson = All(<<>>)
  /\ recSrc = All(<<>>)
  /\ calls = All(<<>>)
  /\ fileOut = All(<<>>)

NextKeys ==
  \/ FoldTree
  \/ FoldDone
  \/ SummaryEntry
  \/ Emit

SpecKeys == InitKeys /\ [][NextKeys]_vars

\* ------------------------------------------------------------ the claims
Explanations(r) == SelectSeq(stdout[r], LAMBDA l : l.kind = "explanation")

\* The run has ended, past the option handling.
Ended(r) == pc[r] \in {"done", "crashed"}

KeypairOf(e) == transform_id_to_keypair(FeatureIdOf(e.k))

\* The entries the loop body was run for, and the value
\* transform_id_to_value returned for the idx-th entry.
TakenSet(r) == {calls[r][j].idx : j \in DOMAIN calls[r]}

ValueAt(r, idx) == calls[r][CHOOSE j \in DOMAIN calls[r] : calls[r][j].idx = idx].value

\* C1: when an entry's feature id does not decode, only that entry is
\* skipped: once the run has ended, every entry whose feature decodes has been
\* taken through the loop body, the records were printed and results.out was
\* written.
C1_OnlyUndecodableSkipped ==
  \A r \in Runs :
    Ended(r) =>
      LET items == Items(results[r]) IN
      /\ \A idx \in DOMAIN items :
           Decodable(FeatureIdOf(items[idx].k)) => idx \in TakenSet(r)
      /\ \E i \in DOMAIN stdout[r] : stdout[r][i].kind = "records"
      /\ fileOut[r] # <<>>

\* C2: an entry whose feature decodes yields a record if and only if
\* transform_id_to_value returned something other than None.
C2_RecordIffValuePresent ==
  \A r \in Runs : \A j \in DOMAIN calls[r] :
    (calls[r][j].value # "None")
      <=> (\E m \in DOMAIN recSrc[r] : recSrc[r][m] = calls[r][j].idx)

\* Every value returned so far is None or a value Python takes for true.
NoFalsyValue(r) ==
  \A j \in DOMAIN calls[r] :
    calls[r][j].value = "None" \/ calls[r][j].value \in {"4", "True"}

\* C3 as stated: at the end of a run there are as many explanation lines as
\* records (a line is printed only for an entry that yields a record).
C3_OneLinePerRecord ==
  \A r \in Runs :
    (pc[r] = "done" /\ NoFalsyValue(r))
      => Len(Explanations(r)) = Len(resultsJson[r])

\* C3 as amended: an explanation line is printed for every entry taken
\* through the loop body, whether or not it yields a record; every record's
\* entry has its line, there are as many lines as records exactly when no
\* value was dropped, and every line precedes the printed records.
C3_OneLinePerTakenEntry ==
  \A r \in Runs :
    LET n == Len(Explanations(r)) IN
    /\ n = Len(calls[r])
    /\ \A m \in DOMAIN recSrc[r] : recSrc[r][m] \in TakenSet(r)
    /\ Len(resultsJson[r]) <= n
    /\ (Len(resultsJson[r]) = n)
         <=> (\A j \in DOMAIN calls[r] : calls[r][j].value \notin {"None", "False"})
    /\ \A i, j \in DOMAIN stdout[r] :
         (stdout[r][i].kind = "explanation" /\ stdout[r][j].kind = "records") => i < j

\* A run ended with a record and with a line for an entry that has none.
C3_Witness ==
  \E r \in Runs :
    /\ pc[r] = "done"
    /\ Len(resultsJson[r]) = 1
    /\ Len(Explanations(r)) = 2
    /\ \E j \in DOMAIN calls[r] : calls[r][j].value = "None"

Slashes(key) == Cardinality({i \in DOMAIN key : key[i] = "/"})

Joined(rec) == rec.EPKeyClass \o <<"/">> \o rec.EPValueClass

\* C4 as stated: for every record, EPKeyClass + '/' + EPValueClass is the
\* qualified key of its entry, whatever the number of '/' in the key.
C4_RoundTrip ==
  \A r \in Runs :
    LET items == Items(results[r]) IN
    \A m \in DOMAIN resultsJson[r] :
      Joined(resultsJson[r][m]) = KeypairOf(items[recSrc[r][m]]).key

\* C4 as amended: the round trip holds for a key with exactly one '/'; for a
\* key without '/', EPKeyClass is the key and EPValueClass is empty; for a key
\* with several, the two classes are its first two pieces and the joined
\* string is the key cut before its second '/'.
C4_RoundTripOneSlash ==
  \A r \in Runs :
    LET items == Items(results[r]) IN
    \A m \in DOMAIN resultsJson[r] :
      LET rec == resultsJson[r][m]
          key == KeypairOf(items[recSrc[r][m]]).key
          n == Len(Joined(rec))
      IN /\ Slashes(key) = 1 => Joined(rec) = key
         /\ Slashes(key) = 0 => (rec.EPKeyClass = key /\ rec.EPValueClass = <<>>)
         /\ Slashes(key) > 1 =>
              /\ Slashes(rec.EPKeyClass) = 0 /\ Slashes(rec.EPValueClass) = 0
              /\ n < Len(key) /\ SubSeq(key, 1, n) = Joined(rec) /\ key[n + 1] = "/"

\* A run ended with the record of a key with one '/' between two classes
\* that are not empty.
C4_Witness ==
  \E r \in Runs :
    /\ pc[r] = "done"
    /\ Len(resultsJson[r]) = 1
    /\ Slashes(keypairs[1].key) = 1
    /\ resultsJson[r][1].EPKeyClass # <<>> /\ resultsJson[r][1].EPValueClass # <<>>

\* C5: the explanation of an entry (k, kk, vv) is
\* '<qualifiedKey> should be <vv> (<how>) than <kk>', where how is 'greater'
\* exactly when vv > 0 and 'smaller' exactly when vv <= 0.
C5_Directionality ==
  \A r \in Runs :
    LET items == Items(results[r])
        lines == Explanations(r)
    IN \A j \in DOMAIN calls[r] :
         LET e == items[calls[r][j].idx]
             line == lines[j].body
         IN /\ j <= Len(lines)
            /\ Len(line) = 7
            /\ line[1] = KeypairOf(e).key
            /\ line[2] = " should be " /\ line[3] = e.vv /\ line[4] = " ("
            /\ line[6] = ") than " /\ line[7] = e.kk
            /\ (line[5] = "greater") <=> (e.vv > 0)
            /\ (line[5] = "smaller") <=> (e.vv <= 0)

\* Lines for a zero and for a positive split value exist.
C5_Witness ==
  \E r \in Runs : \E i, j \in DOMAIN calls[r] :
    /\ Items(results[r])[calls[r][i].idx].vv = 0
    /\ Items(results[r])[calls[r][j].idx].vv > 0
    /\ Len(Explanations(r)) = 2

PairsOf(d) == {<<Items(d)[i].k, Items(d)[i].kk>> : i \in DOMAIN Items(d)}

ValueOf(d, pair) ==
  Items(d)[CHOOSE i \in DOMAIN Items(d) : <<Items(d)[i].k, Items(d)[i].kk>> = pair].vv

\* C6: while the trees are folded and when the fold is over, the merged
\* mapping holds exactly the (feature, split) pairs of the trees folded so far,
\* and a pair that occurs in exactly one of them has that tree's value.
C6_FoldIsUnion ==
  \A r \in Runs :
    (pc[r] \in {"fold", "summary"} /\ entryIdx[r] = 0) =>
      LET folded == 1 .. treeIdx[r] IN
      /\ PairsOf(results[r]) = UNION {PairsOf(trees[r][i]) : i \in folded}
      /\ \A i \in folded : \A pair \in PairsOf(trees[r][i]) :
           (\A j \in folded \ {i} : pair \notin PairsOf(trees[r][j]))
             => ValueOf(results[r], pair) = ValueOf(trees[r][i], pair)

\* Two trees are folded whose pairs differ, on the same feature.
C6_Witness ==
  \E r \in Runs :
    /\ treeIdx[r] = 2 /\ pc[r] = "summary" /\ entryIdx[r] = 0
    /\ Len(results[r]) = 1 /\ Len(results[r][1].v) = 2
    /\ PairsOf(trees[r][1]) # PairsOf(trees[r][2])

\* C7: each record stems from one entry of the merged mapping, no entry
\* yields two records, the records stand in the order of their entries, and
\* the printed collection and results.out hold them in that order.
C7_OrderMirrorsIteration ==
  \A r \in Runs :
    LET items == Items(results[r]) IN
    /\ Len(recSrc[r]) = Len(resultsJson[r])
    /\ \A m \in DOMAIN recSrc[r] :
         /\ recSrc[r][m] \in 1 .. entryIdx[r]
         /\ recSrc[r][m] \in TakenSet(r)
         /\ resultsJson[r][m].ID = KeypairOf(items[recSrc[r][m]]).i
         /\ resultsJson[r][m].EPValue = ValueAt(r, recSrc[r][m])
    /\ \A m, n \in DOMAIN recSrc[r] : m < n => recSrc[r][m] < recSrc[r][n]
    /\ pc[r] = "done" =>
         /\ stdout[r][Len(stdout[r])] = Line("records", resultsJson[r])
         /\ Len(fileOut[r]) = 1
         /\ Len(fileOut[r][1]) = Len(recSrc[r])
         /\ \A m \in DOMAIN recSrc[r] :
              fileOut[r][1][m] =
                JsonObject(Recommendation(KeypairOf(items[recSrc[r][m]]),
                                          ValueAt(r, recSrc[r][m])))

\* A run ended with two records, of different features.
C7_Witness ==
  \E r \in Runs :
    /\ pc[r] = "done"
    /\ Len(resultsJson[r]) = 2
    /\ resultsJson[r][1].ID # resultsJson[r][2].ID

\* The word at position i is read as an option: it is one, and the words
\* before it are options with their arguments.
RECURSIVE ReadAsOption(_, _)
ReadAsOption(args, i) ==
  /\ i \in DOMAIN args
  /\ IsOption(args[i])
  /\ \/ i = 1
     \/ i >= 2 /\ args[i - 1] = "-h" /\ ReadAsOption(args, i - 1)
     \/ i >= 3 /\ args[i - 2] \in {"-s", "-d", "-r"} /\ ReadAsOption(args, i - 2)

\* The command line holds an unsupported flag, or an option without its
\* argument.
Malformed(args) ==
  \E i \in DOMAIN args :
    /\ ReadAsOption(args, i)
    /\ args[i] = "-x" \/ (args[i] \in {"-s", "-d", "-r"} /\ i = Len(args))

\* C8: on a malformed command line the run prints the usage message and
\* exits with status 2, and nothing else happens: train is not called, no tree
\* is merged, no record is made, results.out is not written.
C8_MalformedExits ==
  \A r \in Runs :
    Malformed(argv[r]) =>
      /\ pc[r] \in {"start", "exit"}
      /\ pc[r] = "exit" => (exitCode[r] = "2" /\ stdout[r] = <<Line("usage", Usage)>>)
      /\ pc[r] = "start" => (exitCode[r] = None /\ stdout[r] = <<>>)
      /\ trainCalls[r] = <<>> /\ processCalls[r] = <<>> /\ resourceCalls[r] = <<>>
      /\ trees[r] = <<>> /\ treeIdx[r] = 0 /\ results[r] = EmptyDict
      /\ entryIdx[r] = 0 /\ calls[r] = <<>> /\ resultsJson[r] = <<>>
      /\ fileOut[r] = <<>>

\* A run has exited on an unsupported flag that follows a supported option.
C8_Witness ==
  \E r \in Runs :
    /\ pc[r] = "exit" /\ exitCode[r] = "2"
    /\ \E i \in DOMAIN argv[r] : i > 1 /\ argv[r][i] = "-x" /\ ReadAsOption(argv[r], i)

\* C9: run 1 and run 2, started with the same command line but for the
\* resource-info options run 2 lacks, stand at the same statement with the
\* same merged mapping, the same explanation lines, the same records and the
\* same results.out.
C9_ResourceInfoIgnored ==
  /\ pc[1] = pc[2]
  /\ exitCode[1] = exitCode[2]
  /\ trainCalls[1] = trainCalls[2]
  /\ results[1] = results[2]
  /\ Explanations(1) = Explanations(2)
  /\ resultsJson[1] = resultsJson[2]
  /\ fileOut[1] = fileOut[2]

\* Both runs have ended with a record, and only run 1 read a resource info.
C9_Witness ==
  /\ pc[1] = "done" /\ pc[2] = "done"
  /\ resourceCalls[1] # <<>> /\ resourceCalls[2] = <<>>
  /\ resultsJson[1] # <<>>

\* The argument of the last -s/--dagsummary or -d/--dagpropertydir option.
LastDirOption(args) ==
  LET opts == GetoptOpts(args)
      D == {i \in DOMAIN opts :
              opts[i].opt \in {"-s", "--dagsummary", "-d", "--dagpropertydir"}}
  IN IF D = {} THEN None
     ELSE opts[CHOOSE i \in D : \A j \in D : j <= i].arg

====
